---- MODULE Spec2Model ----
(***************************************************************************)
(* A model of ExampleScrapingCode.py: the two-tier (BeautifulSoup, then    *)
(* Selenium) product scraper.                                              *)
(*                                                                         *)
(* Strings are sequences of tokens.  A token is either one character that  *)
(* the code looks at ("/", "?", "&", " ") or a run of characters the code  *)
(* only treats as a unit ("https:", "api/image", "url=", a word).  The     *)
(* Python string operations used by the code (startswith, in, split,       *)
(* strip, lower, join, urlparse().query, parse_qs) are defined on that     *)
(* representation.                                                         *)
(***************************************************************************)
EXTENDS Integers, Sequences, FiniteSets, TLC

VARIABLES
    pc,          \* position of the running function
    input,       \* argument of the pure function under analysis
    output,      \* its result
    tex_driver,  \* _tex_driver: None or the session handle
    created,     \* number of webdriver.Chrome sessions created so far
    quitCalls,   \* number of _tex_driver.quit() calls so far
    live,        \* number of sessions created and not yet quit
    reused,      \* some _ensure_tex_driver call returned on line 87
    series,      \* series still to be visited by main's outer loop
    prods,       \* product cards still to be visited by main's inner loop
    rows,        \* len(rows) of main
    total,       \* total of main
    discovered,  \* product cards returned by extract_product_cards so far
    visited,     \* parse_product_page calls so far
    fetched,     \* parse_product_page calls whose soup_from returned a document
    raised,      \* an exception is propagating out of main's try block
    cur          \* locals of the running parse_product_page call, None outside

vars == << pc, input, output, tex_driver, created, quitCalls, live, reused,
           series, prods, rows, total, discovered, visited, fetched, raised, cur >>

\* Python's None and Optional values: None is the empty sequence and a present
\* value v is the one-element sequence Some(v)
None == << >>
Some(v) == << v >>

\* ---------------------------------------------------------------- strings

\* str.startswith(prefix)
StartsWith(s, prefix) ==
    /\ Len(s) >= Len(prefix)
    /\ SubSeq(s, 1, Len(prefix)) = prefix

\* `tok in s` for a token the alphabet keeps whole
Contains(s, tok) == \E i \in 1..Len(s) : s[i] = tok

\* index of the first occurrence of tok in s, 0 when there is none
RECURSIVE IndexFrom(_, _, _)
IndexFrom(s, tok, i) ==
    IF i > Len(s) THEN 0
    ELSE IF s[i] = tok THEN i
    ELSE IndexFrom(s, tok, i + 1)

IndexOf(s, tok) == IndexFrom(s, tok, 1)

\* str.split(sep) for a one-token separator: the list of pieces
RECURSIVE SplitOn(_, _)
SplitOn(s, sep) ==
    LET i == IndexOf(s, sep) IN
    IF i = 0 THEN << s >>
    ELSE << SubSeq(s, 1, i - 1) >> \o SplitOn(SubSeq(s, i + 1, Len(s)), sep)

IsSpace(tok) == tok = " "

RECURSIVE LStrip(_)
LStrip(s) ==
    IF s # << >> /\ IsSpace(Head(s)) THEN LStrip(Tail(s)) ELSE s

RECURSIVE RStrip(_)
RStrip(s) ==
    IF s # << >> /\ IsSpace(s[Len(s)]) THEN RStrip(SubSeq(s, 1, Len(s) - 1)) ELSE s

\* str.strip()
Strip(s) == LStrip(RStrip(s))

\* sep.join(parts): parts is a sequence of strings, sep a string
RECURSIVE Join(_, _)
Join(parts, sep) ==
    IF parts = << >> THEN << >>
    ELSE IF Len(parts) = 1 THEN parts[1]
    ELSE parts[1] \o sep \o Join(Tail(parts), sep)

\* ----------------------------------------------------- image URL unwrapper

BASE == << "https:", "/", "/", "www.examplesite.com" >>

\* urllib.parse.unquote on one token: the only escape of the alphabet is %2F
Unquote(tok) == IF tok = "%2F" THEN "/" ELSE tok

\* urlparse(src).query: what follows the first "?"
UrlQuery(s) ==
    LET i == IndexOf(s, "?") IN
    IF i = 0 THEN << >> ELSE SubSeq(s, i + 1, Len(s))

\* parse_qs(query)["url"]: the decoded non-blank values of the pairs named url
RECURSIVE UrlValues(_)
UrlValues(pairs) ==
    IF pairs = << >> THEN << >>
    ELSE LET p == Head(pairs) IN
         IF Len(p) > 1 /\ p[1] = "url="
         THEN << [i \in 1..(Len(p) - 1) |-> Unquote(p[i + 1])] >> \o UrlValues(Tail(pairs))
         ELSE UrlValues(Tail(pairs))

ParseQsUrl(query) == UrlValues(SplitOn(query, "&"))

\* _unwrap_proxied(src)
unwrap_proxied(src) ==
    IF src = << >> THEN << >>
    ELSE LET s1 == IF StartsWith(src, << "/", "/" >>) THEN << "https:" >> \o src ELSE src
             s2 == IF StartsWith(s1, << "/" >>) THEN BASE \o s1 ELSE s1
             q  == ParseQsUrl(UrlQuery(s2))
         IN IF Contains(s2, "api/image") /\ Contains(s2, "url=") /\ q # << >>
            THEN Strip(q[1])
            ELSE s2

\* ------------------------------------------------------------ text helpers

\* re.sub(r"\s+", " ", s): every run of whitespace becomes one space
RECURSIVE CollapseSpaces(_)
CollapseSpaces(s) ==
    IF Len(s) < 2 THEN s
    ELSE IF IsSpace(s[1]) /\ IsSpace(s[2]) THEN CollapseSpaces(Tail(s))
    ELSE << s[1] >> \o CollapseSpaces(Tail(s))

\* clean_text(s)
clean_text(s) == CollapseSpaces(Strip(s))

\* str.lower() / String.prototype.toLowerCase() on one word
LowerTok(tok) ==
    CASE tok = "Formats"         -> "formats"
      [] tok = "Formati"         -> "formati"
      [] tok = "FORMATI"         -> "formati"
      [] tok = "Formato"         -> "formato"
      [] tok = "Finishing"       -> "finishing"
      [] tok = "Finiture"        -> "finiture"
      [] tok = "FINITURE"        -> "finiture"
      [] tok = "Finitura"        -> "finitura"
      [] tok = "Thickness"       -> "thickness"
      [] tok = "Spessori"        -> "spessori"
      [] tok = "Spessore"        -> "spessore"
      [] tok = "Characteristics" -> "characteristics"
      [] tok = "Caratteristiche" -> "caratteristiche"
      [] tok = "Colours"         -> "colours"
      [] tok = "Matt"            -> "matt"
      [] tok = "Rich"            -> "rich"
      [] tok = "R10"             -> "r10"
      [] OTHER                   -> tok

Lower(s) == [i \in 1..Len(s) |-> LowerTok(s[i])]

\* s.replace("  ", " "): non-overlapping pairs of spaces, left to right
RECURSIVE ReplaceDoubleSpace(_)
ReplaceDoubleSpace(s) ==
    IF Len(s) < 2 THEN s
    ELSE IF IsSpace(s[1]) /\ IsSpace(s[2])
         THEN << " " >> \o ReplaceDoubleSpace(Tail(Tail(s)))
    ELSE << s[1] >> \o ReplaceDoubleSpace(Tail(s))

\* [f(x) for x in xs if f(x)] for the cleaning function f
RECURSIVE CleanNonEmpty(_)
CleanNonEmpty(xs) ==
    IF xs = << >> THEN << >>
    ELSE LET t == clean_text(Head(xs)) IN
         IF t # << >> THEN << t >> \o CleanNonEmpty(Tail(xs))
         ELSE CleanNonEmpty(Tail(xs))

\* ------------------------------------------------------- structural details
\* A parsed product page (sp) is a record:
\*   detailsRoot  whether a node of class exampleProductDetails exists; it is
\*                the container of the detail panels
\*   items        the exampleProductDetailsItem panels in document order, each
\*                [mod, heading, lis, paras]: its details__item--<mod> class (a
\*                word, or empty), its "h4 .title__content" node (None, or Some
\*                of the node's text), the
\*                texts of its ".details__item__list li" and of its
\*                ".paragraph, p" nodes
\*   textures     None when the texture section or its container is missing,
\*                else Some of the container's "img.picture__image,
\*                source[srcset]" nodes in document order

\* the li texts of a sequence of panels, in document order
RECURSIVE AllLis(_)
AllLis(items) ==
    IF items = << >> THEN << >> ELSE Head(items).lis \o AllLis(Tail(items))

\* the paragraph texts of a sequence of panels, in document order
RECURSIVE AllParas(_)
AllParas(items) ==
    IF items = << >> THEN << >> ELSE Head(items).paras \o AllParas(Tail(items))

\* sp.select_one(".exampleProductDetails"): the container, seen as one block
DetailsRootBlock(sp) ==
    IF sp.detailsRoot
    THEN Some([lis |-> AllLis(sp.items), paras |-> AllParas(sp.items)])
    ELSE None

\* lines 243-250: the first panel whose heading is one of the titles
RECURSIVE BlockByTitle(_, _)
BlockByTitle(items, titles) ==
    IF items = << >> THEN None
    ELSE LET itm == Head(items) IN
         IF itm.heading # None
            /\ Lower(clean_text(itm.heading[1])) \in {Lower(t) : t \in titles}
         THEN Some([lis |-> itm.lis, paras |-> itm.paras])
         ELSE BlockByTitle(Tail(items), titles)

\* the first panel that carries the modifier class mod, which the selector of
\* line 239 was to name
RECURSIVE BlockByMod(_, _)
BlockByMod(items, mod) ==
    IF items = << >> THEN None
    ELSE IF Head(items).mod = mod
         THEN Some([lis |-> Head(items).lis, paras |-> Head(items).paras])
         ELSE BlockByMod(Tail(items), mod)

\* extract_detail_block_bs4(sp, titles_en_it, mod): the selector of line 239
\* does not mention mod
extract_detail_block_bs4(sp, titles_en_it, mod) ==
    IF mod # << >> /\ DetailsRootBlock(sp) # None
    THEN DetailsRootBlock(sp)
    ELSE BlockByTitle(sp.items, titles_en_it)

\* extract_list_items_text(block)
extract_list_items_text(block) ==
    IF block = None THEN << >> ELSE CleanNonEmpty(block[1].lis)

FormatsTitles == { << "Formats" >>, << "Formati" >>, << "Formato" >> }
FinishingTitles == { << "Finishing" >>, << "Finiture" >>, << "Finitura" >> }
ThicknessTitles == { << "Thickness" >>, << "Spessori" >>, << "Spessore" >> }
CharacteristicsTitles == { << "Characteristics" >>, << "Caratteristiche" >> }

\* extract_details_bs4(sp)
extract_details_bs4(sp) ==
    LET formats_block == extract_detail_block_bs4(sp, FormatsTitles, << "formati" >>)
        finishing_block == extract_detail_block_bs4(sp, FinishingTitles, << "finiture" >>)
        thickness_block == extract_detail_block_bs4(sp, ThicknessTitles, << "spessori" >>)
        characteristics_block ==
            extract_detail_block_bs4(sp, CharacteristicsTitles, << "caratteristiche" >>)
    IN [Formats |-> extract_list_items_text(formats_block),
        Finishing |-> extract_list_items_text(finishing_block),
        Thickness |-> extract_list_items_text(thickness_block),
        Characteristics_text |->
            IF characteristics_block = None THEN << >>
            ELSE Join(CleanNonEmpty(characteristics_block[1].paras), << " " >>)]

\* ------------------------------------------------------ structural textures
\* A texture node is [tag, src, data_src, srcset, currentSrc]; a missing
\* attribute is the empty string.

\* s.split()[0]: the first whitespace-separated word of a non-empty string
FirstWord(s) ==
    LET t == LStrip(s)
        i == IndexOf(t, " ")
    IN IF i = 0 THEN t ELSE SubSeq(t, 1, i - 1)

\* lines 139-143 and 211-215: the raw source read from one node
NodeSrc(node) ==
    LET s == Strip(IF node.src # << >> THEN node.src ELSE node.data_src)
        first == Strip(SplitOn(node.srcset, ",")[1])
    IN IF s = << >> /\ node.tag = "source" /\ first # << >>
       THEN FirstWord(first)
       ELSE s

\* lines 144-147 and 226-230: unwrap each source, keep the first occurrence
RECURSIVE DedupUnwrapped(_, _, _)
DedupUnwrapped(srcs, urls, seen) ==
    IF srcs = << >> THEN urls
    ELSE LET real == unwrap_proxied(Head(srcs)) IN
         IF real # << >> /\ real \notin seen
         THEN DedupUnwrapped(Tail(srcs), Append(urls, real), seen \cup {real})
         ELSE DedupUnwrapped(Tail(srcs), urls, seen)

\* " | ".join(urls)
JoinUrls(urls) == Join(urls, << " | " >>)

\* extract_textures_bs4(sp)
extract_textures_bs4(sp) ==
    IF sp.textures = None THEN << >>
    ELSE LET nodes == sp.textures[1] IN
         JoinUrls(DedupUnwrapped(
             [i \in 1..Len(nodes) |-> NodeSrc(nodes[i])], << >>, {}))

\* ------------------------------------------------------------ rendered tier
\* What the browser does for one visit is the record env:
\*   fail     the step that raises: "none", "chrome" (webdriver.Chrome or the
\*            driver manager), "get" (d.get), "wait" (a WebDriverWait timeout),
\*            "script" (an execute_script of the function)
\*   consent  the cookie banner: "clicked" (a selector matched a visible
\*            button) or "absent" (none did)
\*   dom      the rendered document

\* A faulty variant, which creates a session on every call.
ensure_tex_driver_unguarded(drv, n, env) ==
    IF env.fail = "chrome"
    THEN [driver |-> drv, made |-> 0, noop |-> FALSE, exc |-> TRUE]
    ELSE [driver |-> Some(n + 1), made |-> 1, noop |-> FALSE, exc |-> FALSE]

\* _ensure_tex_driver(): n sessions were created before the call
ensure_tex_driver(drv, n, env) ==
    IF drv # None THEN [driver |-> drv, made |-> 0, noop |-> TRUE, exc |-> FALSE]
    ELSE IF env.fail = "chrome"
    THEN [driver |-> None, made |-> 0, noop |-> FALSE, exc |-> TRUE]
    ELSE [driver |-> Some(n + 1), made |-> 1, noop |-> FALSE, exc |-> FALSE]

\* _selenium_load_and_accept(url): the cookie loop swallows its own exceptions
\* and changes nothing the callers read
selenium_load_and_accept(drv, n, env) ==
    LET e == ensure_tex_driver(drv, n, env) IN
    [driver |-> e.driver, made |-> e.made, noop |-> e.noop,
     exc |-> e.exc \/ env.fail = "get",
     accepted |-> ~e.exc /\ env.fail # "get" /\ env.consent = "clicked"]

\* norm of the details script: trim and lower-case
Norm(s) == Lower(Strip(s))

\* xs.map(norm).filter(Boolean)
RECURSIVE NormNonEmpty(_)
NormNonEmpty(xs) ==
    IF xs = << >> THEN << >>
    ELSE LET t == Norm(Head(xs)) IN
         IF t # << >> THEN << t >> \o NormNonEmpty(Tail(xs))
         ELSE NormNonEmpty(Tail(xs))

EmptyDetails ==
    [Formats |-> << >>, Finishing |-> << >>, Thickness |-> << >>,
     Characteristics_text |-> << >>]

\* lines 309-325: the loop over the blocks; a later block of a kind replaces
\* an earlier one
RECURSIVE DetailsScriptLoop(_, _)
DetailsScriptLoop(blocks, res) ==
    IF blocks = << >> THEN res
    ELSE LET b == Head(blocks)
             title == IF b.heading = None THEN << >> ELSE Norm(b.heading[1])
             mod == Norm(b.mod)
             items == NormNonEmpty(b.lis)
             paras == Join(NormNonEmpty(b.paras), << " " >>)
             is(keys) == title \in keys \/ mod \in keys
             next ==
                 IF is({ << "formats" >>, << "formati" >>, << "formato" >> })
                 THEN [res EXCEPT !.Formats = items]
                 ELSE IF is({ << "finishing" >>, << "finiture" >>, << "finitura" >> })
                 THEN [res EXCEPT !.Finishing = items]
                 ELSE IF is({ << "thickness" >>, << "spessori" >>, << "spessore" >> })
                 THEN [res EXCEPT !.Thickness = items]
                 ELSE IF is({ << "characteristics" >>, << "caratteristiche" >> })
                 THEN [res EXCEPT !.Characteristics_text = paras]
                 ELSE res
         IN DetailsScriptLoop(Tail(blocks), next)

\* lines 303-327: the script evaluated in the page
details_script(dom) ==
    IF ~dom.hero THEN EmptyDetails ELSE DetailsScriptLoop(dom.blocks, EmptyDetails)

\* [s.replace("  ", " ").strip() for s in xs]
DisplayForm(xs) == [i \in 1..Len(xs) |-> Strip(ReplaceDoubleSpace(xs[i]))]

\* A faulty variant, which lets a timeout of the wait leave the function.
extract_details_selenium_raising(drv, n, env) ==
    LET load == selenium_load_and_accept(drv, n, env)
        data == details_script(env.dom)
    IN [driver |-> load.driver, made |-> load.made, noop |-> load.noop,
        accepted |-> load.accepted,
        exc |-> ~load.exc /\ env.fail = "wait",
        result |->
            IF load.exc \/ env.fail \in {"wait", "script"} THEN EmptyDetails
            ELSE [Formats |-> DisplayForm(data.Formats),
                  Finishing |-> DisplayForm(data.Finishing),
                  Thickness |-> DisplayForm(data.Thickness),
                  Characteristics_text |-> Strip(data.Characteristics_text)]]

\* extract_details_selenium(product_url)
extract_details_selenium(drv, n, env) ==
    LET load == selenium_load_and_accept(drv, n, env)
        data == details_script(env.dom)
    IN [driver |-> load.driver, made |-> load.made, noop |-> load.noop,
        accepted |-> load.accepted,
        exc |-> FALSE,
        result |->
            IF load.exc \/ env.fail \in {"wait", "script"} THEN EmptyDetails
            ELSE [Formats |-> DisplayForm(data.Formats),
                  Finishing |-> DisplayForm(data.Finishing),
                  Thickness |-> DisplayForm(data.Thickness),
                  Characteristics_text |-> Strip(data.Characteristics_text)]]

\* lines 209-221: the sources the collecting script is written to gather from
\* the container's nodes
RECURSIVE RenderedSources(_)
RenderedSources(nodes) ==
    IF nodes = << >> THEN << >>
    ELSE LET node == Head(nodes)
             s == NodeSrc(node)
             cs == IF node.tag = "img" THEN Strip(node.currentSrc) ELSE << >>
         IN (IF s # << >> THEN << s >> ELSE << >>)
            \o (IF cs # << >> THEN << cs >> ELSE << >>)
            \o RenderedSources(Tail(nodes))

\* lines 205-223: d.execute_script of the collecting script.  The string
\* literal opened on line 207 is not closed on its line, so the browser
\* rejects the script and execute_script raises.
collect_script(dom) == [exc |-> TRUE, value |-> << >>]

\* extract_textures_selenium(product_url)
extract_textures_selenium(drv, n, env) ==
    LET load == selenium_load_and_accept(drv, n, env)
        srcs == collect_script(env.dom)
    IN [driver |-> load.driver, made |-> load.made, noop |-> load.noop,
        accepted |-> load.accepted,
        exc |-> FALSE,
        result |->
            IF load.exc \/ env.fail \in {"wait", "script"} \/ env.dom.textures = None
               \/ srcs.exc
            THEN << >>
            ELSE JoinUrls(DedupUnwrapped(srcs.value, << >>, {}))]

\* ------------------------------------------------------------------ bounds

\* series on the list page, and product cards over all the series pages
MaxSeries == 2
MaxCards == 2
ITEM_LIMIT == 99999

\* ------------------------------------------------------- crawl input sets

PanelFormats ==
    [mod |-> << "formati" >>, heading |-> Some(<< "Formats" >>),
     lis |-> << << "60x60" >> >>, paras |-> << >>]
PanelFinishing ==
    [mod |-> << "finiture" >>, heading |-> Some(<< " ", "FINITURE" >>),
     lis |-> << << "Matt" >> >>, paras |-> << >>]
PanelThickness ==
    [mod |-> << "spessori" >>, heading |-> Some(<< "Spessori" >>),
     lis |-> << << "9mm" >>, << " " >> >>, paras |-> << >>]
PanelCharacteristics ==
    [mod |-> << "caratteristiche" >>, heading |-> Some(<< "Characteristics" >>),
     lis |-> << >>, paras |-> << << "Rich" >>, << "body" >> >>]

\* the panels of ps whose index is in keep, in order
RECURSIVE Pick(_, _, _)
Pick(ps, keep, i) ==
    IF i > Len(ps) THEN << >>
    ELSE (IF i \in keep THEN << ps[i] >> ELSE << >>) \o Pick(ps, keep, i + 1)

DirectUrl == BASE \o << "/", "a" >>
ImgNode(src, cs) ==
    [tag |-> "img", src |-> src, data_src |-> << >>, srcset |-> << >>,
     currentSrc |-> cs]

\* the product documents the crawl may fetch
CrawlDocs ==
    LET all == << PanelFormats, PanelFinishing, PanelThickness, PanelCharacteristics >>
    IN { [detailsRoot |-> FALSE, items |-> Pick(all, keep, 1), textures |-> None] :
            keep \in SUBSET (1..4) }
       \cup
       { [detailsRoot |-> FALSE, items |-> Pick(all, keep, 1),
          textures |-> Some(<< ImgNode(DirectUrl, << >>) >>)] :
            keep \in { {}, {1, 3}, {1, 2, 3}, {1, 2, 3, 4} } }
       \cup
       { [detailsRoot |-> TRUE, items |-> Pick(all, keep, 1), textures |-> Some(<< >>)] :
            keep \in { {1, 3}, {1, 2, 3, 4} } }

RenderedFormats ==
    [mod |-> << "formati" >>, heading |-> None,
     lis |-> << << "30x30" >> >>, paras |-> << >>]
RenderedFinishing ==
    [mod |-> << >>, heading |-> Some(<< "Finitura" >>),
     lis |-> << << "Matt", " ", " ", "R10" >> >>, paras |-> << >>]
RenderedThickness ==
    [mod |-> << "spessori" >>, heading |-> Some(<< "Thickness" >>),
     lis |-> << << "9mm" >> >>, paras |-> << >>]
RenderedCharacteristics ==
    [mod |-> << >>, heading |-> Some(<< "Caratteristiche" >>),
     lis |-> << >>, paras |-> << << "Rich" >> >>]

\* the rendered documents the browser may show to extract_details_selenium
DetailDoms ==
    LET all == << RenderedFormats, RenderedFinishing, RenderedThickness,
                  RenderedCharacteristics >>
    IN { [hero |-> FALSE, blocks |-> all, textures |-> None] }
       \cup
       { [hero |-> TRUE, blocks |-> Pick(all, keep, 1),
          textures |-> Some(<< ImgNode(DirectUrl, DirectUrl) >>)] :
            keep \in { {}, {1, 3}, {4}, {1, 2, 3, 4} } }

\* the rendered documents the browser may show to extract_textures_selenium
TextureDoms ==
    { [hero |-> TRUE, blocks |-> << >>, textures |-> t] :
        t \in { None, Some(<< ImgNode(DirectUrl, DirectUrl) >>) } }

Fails == { "none", "chrome", "get", "wait", "script" }
Consents == { "clicked", "absent" }

\* the visits the browser may make with the session in state drv: Chrome is
\* started only when there is no session, and the cookie loop is reached only
\* when the page loaded
Envs(drv, doms) ==
    { e \in [fail : Fails, consent : Consents, dom : doms] :
        /\ e.fail = "chrome" => drv = None
        /\ e.fail \in {"chrome", "get"} => e.consent = "absent" }

\* ------------------------------------------------------ parse_product_page

\* A faulty variant, which also asks for rendering when only the description is empty.
needs_details_selenium_with_description(olculer_list, yuzey_list, kalinlik_list, urun_aciklamasi) ==
    \/ olculer_list = << >>
    \/ yuzey_list = << >>
    \/ kalinlik_list = << >>
    \/ urun_aciklamasi = << >>

\* A faulty variant, which asks for rendering for every product.
needs_details_selenium_always(olculer_list, yuzey_list, kalinlik_list, urun_aciklamasi) ==
    TRUE

\* line 401: not (olculer_list and yuzey_list and kalinlik_list)
needs_details_selenium(olculer_list, yuzey_list, kalinlik_list, urun_aciklamasi) ==
    ~(olculer_list # << >> /\ yuzey_list # << >> /\ kalinlik_list # << >>)

\* A faulty variant, which renders again when the pass came back empty.
after_details_selenium_retrying(det_sel) ==
    IF det_sel = EmptyDetails THEN "details_selenium" ELSE "textures"

\* lines 402-413: one call of extract_details_selenium, then the textures
after_details_selenium(det_sel) == "textures"

\* A faulty variant, which lets a non-empty rendered value replace a structural one.
merge_field_overwriting(have, rendered) ==
    IF rendered # << >> THEN rendered ELSE have

\* lines 403-410, one field: adopt the rendered value when the field is empty
merge_field(have, rendered) ==
    IF have = << >> /\ rendered # << >> THEN rendered ELSE have

\* A faulty variant, which drops a product whose fields are all empty.
make_row_dropping_empty(c) ==
    IF c.olculer_list = << >> /\ c.yuzey_list = << >> /\ c.kalinlik_list = << >>
       /\ c.urun_gorseller = << >> /\ c.urun_aciklamasi = << >>
    THEN << >>
    ELSE [Olculer |-> Join(c.olculer_list, << ", " >>),
          Yuzey |-> Join(c.yuzey_list, << ", " >>),
          Kalinlik |-> Join(c.kalinlik_list, << ", " >>),
          UrunGorseller |-> c.urun_gorseller,
          UrunAciklamasi |-> c.urun_aciklamasi,
          UrunLinki |-> c.id]

\* lines 417-427: the row of the product
make_row(c) ==
    [Olculer |-> Join(c.olculer_list, << ", " >>),
     Yuzey |-> Join(c.yuzey_list, << ", " >>),
     Kalinlik |-> Join(c.kalinlik_list, << ", " >>),
     UrunGorseller |-> c.urun_gorseller,
     UrunAciklamasi |-> c.urun_aciklamasi,
     UrunLinki |-> c.id]

\* line 385: the empty dict
EmptyRow == << >>

\* -------------------------------------------------------------------- main

Init ==
    /\ pc = "main"
    /\ input = None
    /\ output = None
    /\ tex_driver = None
    /\ created = 0
    /\ quitCalls = 0
    /\ live = 0
    /\ reused = FALSE
    /\ series = << >>
    /\ prods = << >>
    /\ rows = 0
    /\ total = 0
    /\ discovered = 0
    /\ visited = 0
    /\ fetched = 0
    /\ raised = FALSE
    /\ cur = None

\* lines 432-435: extract_series_from_list returns n series
MainStart ==
    /\ pc = "main"
    /\ \E n \in 0..MaxSeries :
          /\ series' = [i \in 1..n |-> i]
          /\ pc' = IF n = 0 THEN "finally" ELSE "series_loop"
    /\ UNCHANGED << input, output, tex_driver, created, quitCalls, live, reused, prods,
                    rows, total, discovered, visited, fetched, raised, cur >>

\* lines 441-443: the outer loop ends
SeriesLoopExit ==
    /\ pc = "series_loop"
    /\ series = << >> \/ total >= ITEM_LIMIT
    /\ pc' = "after_loop"
    /\ UNCHANGED << input, output, tex_driver, created, quitCalls, live, reused, series,
                    prods, rows, total, discovered, visited, fetched, raised, cur >>

\* lines 445-447: extract_product_cards returns k cards
SeriesCards ==
    /\ pc = "series_loop"
    /\ series # << >> /\ total < ITEM_LIMIT
    /\ \E k \in 0..(MaxCards - discovered) :
          /\ discovered' = discovered + k
          /\ prods' = [i \in 1..k |-> << Head(series), i >>]
          /\ series' = IF k = 0 THEN Tail(series) ELSE series
          /\ pc' = IF k = 0 THEN "series_loop" ELSE "product_loop"
    /\ UNCHANGED << input, output, tex_driver, created, quitCalls, live, reused,
                    rows, total, visited, fetched, raised, cur >>

\* line 366: a card with no href and no title makes split("/")[-2] raise
SeriesCardsRaise ==
    /\ pc = "series_loop"
    /\ series # << >> /\ total < ITEM_LIMIT
    /\ raised' = TRUE
    /\ pc' = "finally"
    /\ UNCHANGED << input, output, tex_driver, created, quitCalls, live, reused, series,
                    prods, rows, total, discovered, visited, fetched, cur >>

\* lines 448-450 and 457: the inner loop ends
ProductLoopExit ==
    /\ pc = "product_loop"
    /\ prods = << >> \/ total >= ITEM_LIMIT
    /\ series' = Tail(series)
    /\ prods' = << >>
    /\ pc' = "series_loop"
    /\ UNCHANGED << input, output, tex_driver, created, quitCalls, live, reused,
                    rows, total, discovered, visited, fetched, raised, cur >>

\* lines 452-456 with lines 383-385: soup_from returns None, the row is {}
ParseAbsent ==
    /\ pc = "product_loop"
    /\ prods # << >> /\ total < ITEM_LIMIT
    /\ visited' = visited + 1
    /\ prods' = Tail(prods)
    /\ UNCHANGED << pc, input, output, tex_driver, created, quitCalls, live, reused, series,
                    rows, total, discovered, fetched, raised, cur >>

\* lines 383-401: the document is fetched and parsed structurally
ParseFetched ==
    /\ pc = "product_loop"
    /\ prods # << >> /\ total < ITEM_LIMIT
    /\ visited' = visited + 1
    /\ fetched' = fetched + 1
    /\ \E sp \in CrawlDocs :
          LET det_bs4 == extract_details_bs4(sp) IN
          /\ cur' = [id |-> Head(prods), sp |-> sp, det_bs4 |-> det_bs4,
                     olculer_list |-> det_bs4.Formats,
                     yuzey_list |-> det_bs4.Finishing,
                     kalinlik_list |-> det_bs4.Thickness,
                     urun_aciklamasi |-> det_bs4.Characteristics_text,
                     urun_gorseller |-> << >>,
                     det_sel |-> None, tex_sel |-> None,
                     log |-> << "bs4_details" >>, row |-> EmptyRow]
          /\ pc' = IF needs_details_selenium(det_bs4.Formats, det_bs4.Finishing,
                          det_bs4.Thickness, det_bs4.Characteristics_text)
                   THEN "details_selenium" ELSE "textures"
    /\ UNCHANGED << input, output, tex_driver, created, quitCalls, live, reused, series,
                    prods, rows, total, discovered, raised >>

\* lines 402-410: the rendered details and their merge
DetailsSelenium ==
    /\ pc = "details_selenium"
    /\ \E env \in Envs(tex_driver, DetailDoms) :
          LET r == extract_details_selenium(tex_driver, created, env)
              det_sel == r.result
          IN /\ tex_driver' = r.driver
             /\ created' = created + r.made
             /\ live' = live + r.made
             /\ reused' = (reused \/ r.noop)
             /\ raised' = r.exc
             /\ pc' = IF r.exc THEN "finally" ELSE after_details_selenium(det_sel)
             /\ cur' = [cur EXCEPT
                    !.olculer_list = merge_field(@, det_sel.Formats),
                    !.yuzey_list = merge_field(@, det_sel.Finishing),
                    !.kalinlik_list = merge_field(@, det_sel.Thickness),
                    !.urun_aciklamasi = merge_field(@, det_sel.Characteristics_text),
                    !.det_sel = Some([fail |-> env.fail, consent |-> env.consent,
                                      result |-> det_sel]),
                    !.log = Append(@, "sel_details")]
    /\ UNCHANGED << input, output, quitCalls, series, prods, rows, total,
                    discovered, visited, fetched >>

\* lines 413-414: the structural textures
TexturesBs4 ==
    /\ pc = "textures"
    /\ LET g == extract_textures_bs4(cur.sp) IN
          /\ cur' = [cur EXCEPT !.urun_gorseller = g,
                                !.log = Append(@, "bs4_textures")]
          /\ pc' = IF g = << >> THEN "textures_selenium" ELSE "assemble"
    /\ UNCHANGED << input, output, tex_driver, created, quitCalls, live, reused, series,
                    prods, rows, total, discovered, visited, fetched, raised >>

\* line 415: the rendered textures
TexturesSelenium ==
    /\ pc = "textures_selenium"
    /\ \E env \in Envs(tex_driver, TextureDoms) :
          LET r == extract_textures_selenium(tex_driver, created, env) IN
          /\ tex_driver' = r.driver
          /\ created' = created + r.made
          /\ live' = live + r.made
          /\ reused' = (reused \/ r.noop)
          /\ raised' = r.exc
          /\ pc' = IF r.exc THEN "finally" ELSE "assemble"
          /\ cur' = [cur EXCEPT
                 !.urun_gorseller = r.result,
                 !.tex_sel = Some([fail |-> env.fail, result |-> r.result]),
                 !.log = Append(@, "sel_textures")]
    /\ UNCHANGED << input, output, quitCalls, series, prods, rows, total,
                    discovered, visited, fetched >>

\* lines 417-427: the row is built and returned
Assemble ==
    /\ pc = "assemble"
    /\ cur' = [cur EXCEPT !.row = make_row(cur), !.log = Append(@, "assembled")]
    /\ pc' = "append"
    /\ UNCHANGED << input, output, tex_driver, created, quitCalls, live, reused, series,
                    prods, rows, total, discovered, visited, fetched, raised >>

\* lines 453-456: main appends the row when it is not empty
AppendRow ==
    /\ pc = "append"
    /\ rows' = IF DOMAIN cur.row # {} THEN rows + 1 ELSE rows
    /\ total' = IF DOMAIN cur.row # {} THEN total + 1 ELSE total
    /\ prods' = Tail(prods)
    /\ cur' = None
    /\ pc' = "product_loop"
    /\ UNCHANGED << input, output, tex_driver, created, quitCalls, live, reused, series,
                    discovered, visited, fetched, raised >>

\* lines 459-461: nothing was collected
AfterLoopEmpty ==
    /\ pc = "after_loop"
    /\ rows = 0
    /\ pc' = "finally"
    /\ UNCHANGED << input, output, tex_driver, created, quitCalls, live, reused, series,
                    prods, rows, total, discovered, visited, fetched, raised, cur >>

\* lines 463-471: the export, which may raise (to_excel)
AfterLoopExport ==
    /\ pc = "after_loop"
    /\ rows > 0
    /\ raised' \in BOOLEAN
    /\ pc' = "finally"
    /\ UNCHANGED << input, output, tex_driver, created, quitCalls, live, reused, series,
                    prods, rows, total, discovered, visited, fetched, cur >>

\* lines 472-479: quit() is called on a session; whatever it raises is
\* swallowed, and closed tells whether the browser went away
Finally ==
    /\ pc = "finally"
    /\ \E closed \in BOOLEAN :
          /\ quitCalls' = IF tex_driver # None THEN quitCalls + 1 ELSE quitCalls
          /\ live' = IF tex_driver # None /\ closed THEN live - 1 ELSE live
    /\ tex_driver' = None
    /\ pc' = "done"
    /\ UNCHANGED << input, output, created, reused, series, prods, rows, total,
                    discovered, visited, fetched, raised, cur >>

Next ==
    \/ MainStart
    \/ SeriesLoopExit
    \/ SeriesCards
    \/ SeriesCardsRaise
    \/ ProductLoopExit
    \/ ParseAbsent
    \/ ParseFetched
    \/ DetailsSelenium
    \/ TexturesBs4
    \/ TexturesSelenium
    \/ Assemble
    \/ AppendRow
    \/ AfterLoopEmpty
    \/ AfterLoopExport
    \/ Finally

Spec == Init /\ [][Next]_vars

\* ------------------------------------------------------------- properties

\* a parse_product_page call is running
InParse ==
    pc \in {"details_selenium", "textures", "textures_selenium", "assemble", "append"}

\* the structural result of the document of the running call (det_bs4)
StructuralDetails == cur.det_bs4

Occurrences(log, ev) == Cardinality({i \in 1..Len(log) : log[i] = ev})

Before(log, a, b) ==
    \A j \in 1..Len(log) : log[j] = b => \E i \in 1..(j - 1) : log[i] = a

\* C1: in a run of main the shared session is created at most once, at most
\* one session is live at any time, and when the run has ended (normally or
\* by an exception leaving the crawl loop) quit() was called once on the
\* session that was created and _tex_driver is None again.
C1_SessionLifecycle ==
    /\ created <= 1
    /\ live <= 1
    /\ quitCalls <= created
    /\ (tex_driver # None => created = 1 /\ live = 1 /\ quitCalls = 0)
    /\ (pc = "done" => tex_driver = None /\ quitCalls = created)

C1_Witness ==
    /\ pc = "done"
    /\ raised
    /\ created = 1
    /\ quitCalls = 1
    /\ reused
    /\ fetched >= 2

\* C2: in the row parse_product_page returns, a field-group whose structural
\* value is not empty holds exactly that structural value; a group holds a
\* rendered value only if the structural tier left it empty.
C2_StructuralWins ==
    pc = "append" =>
        LET d == StructuralDetails
            final == << cur.olculer_list, cur.yuzey_list, cur.kalinlik_list,
                        cur.urun_aciklamasi >>
            bs4 == << d.Formats, d.Finishing, d.Thickness, d.Characteristics_text >>
            sel == IF cur.det_sel = None THEN << << >>, << >>, << >>, << >> >>
                   ELSE LET r == cur.det_sel[1].result IN
                        << r.Formats, r.Finishing, r.Thickness, r.Characteristics_text >>
        IN /\ \A g \in 1..4 :
                /\ bs4[g] # << >> => final[g] = bs4[g]
                /\ final[g] # bs4[g] => bs4[g] = << >> /\ final[g] = sel[g]
           /\ cur.row.Olculer = Join(final[1], << ", " >>)
           /\ cur.row.Yuzey = Join(final[2], << ", " >>)
           /\ cur.row.Kalinlik = Join(final[3], << ", " >>)
           /\ cur.row.UrunAciklamasi = final[4]

C2_Witness ==
    /\ pc = "append"
    /\ cur.det_sel # None
    /\ StructuralDetails.Formats # << >>
    /\ StructuralDetails.Thickness = << >>
    /\ cur.det_sel[1].result.Formats # << >>
    /\ cur.det_sel[1].result.Formats # StructuralDetails.Formats
    /\ cur.det_sel[1].result.Thickness # << >>
    /\ cur.row.Olculer = Join(StructuralDetails.Formats, << ", " >>)
    /\ cur.row.Kalinlik = Join(cur.det_sel[1].result.Thickness, << ", " >>)

\* C3, as stated: extract_details_selenium is called for a product whenever
\* one of Dimensions, SurfaceFinish, Thickness or the Description is empty in
\* the structural result.
C3_Original ==
    pc = "append" =>
        LET d == StructuralDetails IN
        (\/ d.Formats = << >>
         \/ d.Finishing = << >>
         \/ d.Thickness = << >>
         \/ d.Characteristics_text = << >>) => cur.det_sel # None

\* C3, amended: extract_details_selenium is called for a product exactly when
\* one of Dimensions, SurfaceFinish or Thickness is empty in the structural
\* result; an empty structural Description alone starts no rendering pass and
\* stays empty, and a rendered Description is adopted only in a pass started by
\* an empty list group.
C3_ListGroupsTriggerRendering ==
    pc = "append" =>
        LET d == StructuralDetails IN
        /\ cur.det_sel # None <=>
               (d.Formats = << >> \/ d.Finishing = << >> \/ d.Thickness = << >>)
        /\ cur.urun_aciklamasi =
               IF d.Characteristics_text = << >> /\ cur.det_sel # None
               THEN cur.det_sel[1].result.Characteristics_text
               ELSE d.Characteristics_text

C3_Witness ==
    /\ pc = "append"
    /\ StructuralDetails.Formats # << >>
    /\ StructuralDetails.Finishing # << >>
    /\ StructuralDetails.Thickness # << >>
    /\ StructuralDetails.Characteristics_text = << >>
    /\ cur.det_sel = None
    /\ cur.row.UrunAciklamasi = << >>

\* C4: when the four detail groups are all non-empty after the structural tier
\* extract_details_selenium is not called for the product, and when the
\* structural texture string is non-empty extract_textures_selenium is not
\* called.
C4_RenderingOnlyForAbsence ==
    InParse =>
        LET d == StructuralDetails IN
        /\ (d.Formats # << >> /\ d.Finishing # << >> /\ d.Thickness # << >>
             /\ d.Characteristics_text # << >>)
               => (Occurrences(cur.log, "sel_details") = 0 /\ pc # "details_selenium")
        /\ extract_textures_bs4(cur.sp) # << >>
               => (Occurrences(cur.log, "sel_textures") = 0 /\ pc # "textures_selenium")

C4_Witness ==
    /\ pc = "append"
    /\ StructuralDetails.Formats # << >>
    /\ StructuralDetails.Finishing # << >>
    /\ StructuralDetails.Thickness # << >>
    /\ StructuralDetails.Characteristics_text # << >>
    /\ extract_textures_bs4(cur.sp) # << >>
    /\ cur.log = << "bs4_details", "bs4_textures", "assembled" >>

\* C7, as stated: after any failure in the rendered tier, the absence of a
\* consent control included, extract_details_selenium has returned the
\* all-empty set, and no exception has left the rendered tier.
C7_Original ==
    /\ raised => cur = None
    /\ (InParse /\ cur.det_sel # None) =>
           ((cur.det_sel[1].fail # "none" \/ cur.det_sel[1].consent = "absent")
               => cur.det_sel[1].result = EmptyDetails)

\* C7, amended: when session creation fails, navigation raises, a wait times
\* out or a script evaluation raises, extract_details_selenium returns the
\* all-empty set and extract_textures_selenium the empty string, no exception
\* reaches parse_product_page or main, and the call goes on; the absence of a
\* consent control is not a failure and does not empty the result.
C7_RenderFailuresContained ==
    /\ raised => cur = None
    /\ InParse =>
        /\ cur.det_sel # None =>
              (cur.det_sel[1].fail # "none" => cur.det_sel[1].result = EmptyDetails)
        /\ cur.tex_sel # None =>
              (cur.tex_sel[1].fail # "none" =>
                  cur.tex_sel[1].result = << >> /\ cur.urun_gorseller = << >>)

C7_Witness ==
    /\ pc = "append"
    /\ ~raised
    /\ cur.det_sel # None
    /\ cur.det_sel[1].fail = "chrome"
    /\ cur.det_sel[1].result = EmptyDetails
    /\ cur.tex_sel # None
    /\ cur.tex_sel[1].fail = "wait"
    /\ cur.tex_sel[1].result = << >>
    /\ DOMAIN cur.row # {}

\* C8: every product whose document was fetched adds exactly one row, also
\* when all its field-groups are empty; a product adds no row only when its
\* document is absent, and the loops then go on: when they end, every
\* discovered product was visited.
C8_OneRowPerFetchedProduct ==
    /\ rows = total
    /\ InParse => rows = fetched - 1
    /\ ~InParse => rows = fetched
    /\ pc = "append" => DOMAIN cur.row # {}
    /\ visited <= discovered
    /\ (pc = "after_loop" /\ total < ITEM_LIMIT) => visited = discovered

C8_Witness ==
    /\ pc = "append"
    /\ visited > fetched
    /\ cur.row.Olculer = << >>
    /\ cur.row.Yuzey = << >>
    /\ cur.row.Kalinlik = << >>
    /\ cur.row.UrunGorseller = << >>
    /\ cur.row.UrunAciklamasi = << >>

\* C9: within one product the structural attempt on the details precedes the
\* rendered one and likewise for the textures, each rendering function is
\* called at most once (a failed pass is not tried again), and the row is
\* assembled last, after every rendering call the product needed.
C9_OrderedSinglePasses ==
    InParse =>
        LET log == cur.log IN
        /\ Occurrences(log, "sel_details") <= 1
        /\ Occurrences(log, "sel_textures") <= 1
        /\ Occurrences(log, "bs4_details") = 1
        /\ Occurrences(log, "bs4_textures") <= 1
        /\ Before(log, "bs4_details", "sel_details")
        /\ Before(log, "bs4_textures", "sel_textures")
        /\ pc = "append" =>
              /\ log[Len(log)] = "assembled"
              /\ Occurrences(log, "assembled") = 1
              /\ needs_details_selenium(StructuralDetails.Formats,
                     StructuralDetails.Finishing, StructuralDetails.Thickness,
                     StructuralDetails.Characteristics_text)
                   => Occurrences(log, "sel_details") = 1
              /\ extract_textures_bs4(cur.sp) = << >>
                   => Occurrences(log, "sel_textures") = 1

C9_Witness ==
    /\ pc = "append"
    /\ cur.log = << "bs4_details", "sel_details", "bs4_textures", "sel_textures",
                    "assembled" >>
    /\ cur.det_sel[1].fail # "none"
    /\ cur.tex_sel[1].fail # "none"

\* --------------------------------------------------- the functions on their own

\* main is not running: its variables keep their initial values
CrawlIdle ==
    /\ tex_driver = None
    /\ created = 0
    /\ quitCalls = 0
    /\ live = 0
    /\ reused = FALSE
    /\ series = << >>
    /\ prods = << >>
    /\ rows = 0
    /\ total = 0
    /\ discovered = 0
    /\ visited = 0
    /\ fetched = 0
    /\ raised = FALSE
    /\ cur = None

crawlVars == << tex_driver, created, quitCalls, live, reused, series, prods, rows,
                total, discovered, visited, fetched, raised, cur >>

\* sequences over S of length at most n
SeqsUpTo(S, n) == UNION { [1..k -> S] : k \in 0..n }

\* ---- _unwrap_proxied

MaxUrlLen == 5

UrlAlphabet == { "/", "https:", "api/image", "?", "&", "url=", " ", "a", "%2F" }

InitUnwrap ==
    /\ pc = "unwrap"
    /\ input \in SeqsUpTo(UrlAlphabet, MaxUrlLen)
    /\ output = << >>
    /\ CrawlIdle

\* x -> _unwrap_proxied(x)
UnwrapOnce ==
    /\ pc = "unwrap"
    /\ output' = unwrap_proxied(input)
    /\ pc' = "unwrap_again"
    /\ UNCHANGED << input, crawlVars >>

\* the result is unwrapped again: input holds the first result
UnwrapAgain ==
    /\ pc = "unwrap_again"
    /\ input' = output
    /\ output' = unwrap_proxied(output)
    /\ pc' = "unwrapped"
    /\ UNCHANGED crawlVars

NextUnwrap == UnwrapOnce \/ UnwrapAgain

SpecUnwrap == InitUnwrap /\ [][NextUnwrap]_vars

\* C5: _unwrap_proxied is idempotent: unwrapping the result of an unwrap
\* returns it unchanged.
C5_UnwrapIdempotent == pc = "unwrapped" => output = input

\* ---- the texture string

MaxNodes == 2

ProxyOf(url) == << "/", "api/image", "?", "url=" >> \o url
OtherUrl == << "https:", "/", "/", "b" >>

\* raw sources: absolute, the same site-relative, the same behind the proxy,
\* another behind the proxy, padded with whitespace, missing
RawSources ==
    { DirectUrl, << "/", "a" >>, ProxyOf(DirectUrl), ProxyOf(OtherUrl),
      << " " >> \o OtherUrl \o << " " >>, << >> }

TextureNodes ==
    { [tag |-> "img", src |-> s, data_src |-> d, srcset |-> << >>, currentSrc |-> c] :
        s \in RawSources, d \in { << >>, OtherUrl }, c \in { << >>, DirectUrl } }
    \cup
    { [tag |-> "source", src |-> << >>, data_src |-> << >>, srcset |-> ss,
       currentSrc |-> << >>] :
        ss \in { << >>,
                 << " " >> \o ProxyOf(OtherUrl) \o << " ", "2x", ",", " " >> \o DirectUrl,
                 DirectUrl \o << "," >> \o OtherUrl } }

\* the static page and, once the browser was used, the rendered page
InitTextures ==
    /\ pc = "tex_bs4"
    /\ input \in [textures : {None} \cup {Some(ns) : ns \in SeqsUpTo(TextureNodes, MaxNodes)},
                   rendered : {None}]
    /\ output = << >>
    /\ CrawlIdle

\* line 413: extract_textures_bs4(sp)
TexturesStructural ==
    /\ pc = "tex_bs4"
    /\ output' = extract_textures_bs4(input)
    /\ pc' = IF output' = << >> THEN "tex_sel" ELSE "tex_done"
    /\ UNCHANGED << input, crawlVars >>

\* line 415: extract_textures_selenium(product_url), on a page whose container
\* shows the nodes ns
TexturesRendered ==
    /\ pc = "tex_sel"
    /\ \E ns \in SeqsUpTo(TextureNodes, MaxNodes) :
          LET env == [fail |-> "none", consent |-> "absent",
                      dom |-> [hero |-> TRUE, blocks |-> << >>, textures |-> Some(ns)]]
              r == extract_textures_selenium(tex_driver, created, env)
          IN /\ output' = r.result
             /\ input' = [input EXCEPT !.rendered = Some(ns)]
             /\ tex_driver' = r.driver
             /\ created' = created + r.made
             /\ live' = live + r.made
             /\ reused' = (reused \/ r.noop)
    /\ pc' = "tex_done"
    /\ UNCHANGED << quitCalls, series, prods, rows, total, discovered, visited,
                    fetched, raised, cur >>

NextTextures == TexturesStructural \/ TexturesRendered

SpecTextures == InitTextures /\ [][NextTextures]_vars

\* the distinct non-empty elements of us, each at its first occurrence
RECURSIVE FirstOccurrences(_, _)
FirstOccurrences(us, i) ==
    IF i > Len(us) THEN << >>
    ELSE (IF us[i] # << >> /\ \A j \in 1..(i - 1) : us[j] # us[i]
          THEN << us[i] >> ELSE << >>)
         \o FirstOccurrences(us, i + 1)

\* the texture string the discovered raw sources call for
TextureStringOf(srcs) ==
    JoinUrls(FirstOccurrences([i \in 1..Len(srcs) |-> unwrap_proxied(srcs[i])], 1))

\* the raw sources the structural tier discovers in the nodes
StructuralSources(nodes) == [i \in 1..Len(nodes) |-> NodeSrc(nodes[i])]

\* C6: the final texture string holds each distinct unwrapped URL of the
\* discovered raw sources once, in first-seen order, joined by " | ", with the
\* empty sources dropped, in the structural tier and in the rendered tier.
C6_TextureString ==
    pc = "tex_done" =>
        IF input.rendered = None
        THEN output = TextureStringOf(StructuralSources(input.textures[1]))
        ELSE output = TextureStringOf(RenderedSources(input.rendered[1]))

\* C6, structural tier only: the string extract_textures_bs4 returns is the
\* one its discovered sources call for.
C6_StructuralTierOnly ==
    (pc \in {"tex_sel", "tex_done"} /\ input.rendered = None /\ input.textures # None)
        => output = TextureStringOf(StructuralSources(input.textures[1]))

\* ---- the structural details

MaxPanels == 3

DetailPanels ==
    { PanelFormats, PanelFinishing, PanelThickness, PanelCharacteristics,
      [mod |-> << "formati" >>, heading |-> None,
       lis |-> << << "30x30" >> >>, paras |-> << >>],
      [mod |-> << >>, heading |-> Some(<< " ", "FORMATI", " " >>),
       lis |-> << << " ", "60x120" >>, << >> >>, paras |-> << >>],
      [mod |-> << >>, heading |-> Some(<< "Spessore" >>),
       lis |-> << << "20mm" >> >>, paras |-> << << "Rich" >> >>],
      [mod |-> << >>, heading |-> Some(<< "Colours" >>),
       lis |-> << << "red" >> >>, paras |-> << << "note" >> >>] }

InitDetails ==
    /\ pc = "det_bs4"
    /\ input \in [detailsRoot : BOOLEAN, items : SeqsUpTo(DetailPanels, MaxPanels),
                   textures : {None}]
    /\ output = << >>
    /\ CrawlIdle

\* line 395: extract_details_bs4(sp)
DetailsStructural ==
    /\ pc = "det_bs4"
    /\ output' = extract_details_bs4(input)
    /\ pc' = "det_done"
    /\ UNCHANGED << input, crawlVars >>

NextDetails == DetailsStructural

SpecDetails == InitDetails /\ [][NextDetails]_vars

\* the kinds, each with its modifier class and its heading synonyms
Kinds ==
    << [mod |-> << "formati" >>, titles |-> FormatsTitles],
       [mod |-> << "finiture" >>, titles |-> FinishingTitles],
       [mod |-> << "spessori" >>, titles |-> ThicknessTitles],
       [mod |-> << "caratteristiche" >>, titles |-> CharacteristicsTitles] >>

\* panel p is of kind k by its modifier class or, without one, by its heading
IsOfKind(p, k) ==
    \/ p.mod = Kinds[k].mod
    \/ /\ p.mod = << >>
       /\ p.heading # None
       /\ Lower(clean_text(p.heading[1])) \in {Lower(t) : t \in Kinds[k].titles}

\* the panel of kind k: by modifier class first, otherwise by heading
PanelOfKind(items, k) ==
    IF BlockByMod(items, Kinds[k].mod) # None
    THEN BlockByMod(items, Kinds[k].mod)
    ELSE BlockByTitle(items, Kinds[k].titles)

\* no two panels of the document are of the same kind
DistinctPanels(items) ==
    \A k \in 1..4 : Cardinality({i \in 1..Len(items) : IsOfKind(items[i], k)}) <= 1

\* C10: for a document with distinct panels each group is taken from the
\* panel of its own kind, found by modifier class first and otherwise by
\* heading; a kind without a panel yields an empty group.
C10_OwnPanelPerKind ==
    (pc = "det_done" /\ DistinctPanels(input.items)) =>
        LET group == << output.Formats, output.Finishing, output.Thickness >> IN
        /\ \A k \in 1..3 :
              group[k] = extract_list_items_text(PanelOfKind(input.items, k))
        /\ output.Characteristics_text =
              IF PanelOfKind(input.items, 4) = None THEN << >>
              ELSE Join(CleanNonEmpty(PanelOfKind(input.items, 4)[1].paras), << " " >>)

====
